---- MODULE Spec2Model ----
(***************************************************************************)
(* A model of sdr_model_comparison.py: the SDR metric (sdr, get_sdr), the   *)
(* evaluation of one track (process_track) and the grid search over the     *)
(* weight pairs that main runs on a thread pool.                            *)
(*                                                                          *)
(* Three specifications share the module:                                   *)
(*   Spec       main(): pool, collection of the futures, aggregation, print *)
(*   SpecTrack  one process_track call, statement by statement              *)
(*   SpecSdr    get_sdr / sdr on small signals                              *)
(*                                                                          *)
(* Numbers.  Weights are the floats 0.0 .. 10.0, all exact, modelled as     *)
(* integers.  An SDR observation of a track is an integer number of dB      *)
(* given by the track's profile (the filters of lr_filter are not           *)
(* modelled: what they produce is an input of the model).  A mean is the    *)
(* rational <<sum, count>>.  In SpecSdr a sample is an integer number of    *)
(* 1/SampleUnit, and energies are kept as exact rationals.                  *)
(*                                                                          *)
(* Inputs left out: args.threads < 1 (ThreadPoolExecutor rejects it before  *)
(* any track is submitted) and one-dimensional (mono) arrays from sf.read.  *)
(***************************************************************************)
EXTENDS Integers, Sequences, FiniteSets, TLC

VARIABLES
    pc,                  \* where main() is
    ntracks,             \* number of directories os.walk yields
    threads,             \* args.threads
    nmodels,             \* len(args.models)
    weight_combinations, \* main's list of weight pairs
    futures,             \* main's list of futures, as track ids in submission order
    fstate,              \* per track: "none", "pending", "running", "finished"
    fresult,             \* per track: the outcome its future holds
    completed,           \* the tracks whose evaluation has ended, in the order they ended
    ci,                  \* number of futures whose result() has returned
    all_sdr_values,      \* main's list of (first_val, second_val, sdr) triples
    avg_sdr_per_weight,  \* main's dict, as the sequence of its items in insertion order
    si,                  \* number of dict items the selection loop has visited
    best_sdr,            \* main's best_sdr
    best_weights,        \* main's best_weights
    output,              \* what print wrote (printed is FALSE until it does)
    crash,               \* the exception that ended main, or NoExc
    pt,                  \* SpecTrack: the frame of one process_track call
    gs                   \* SpecSdr: the frame of one get_sdr call

vars == <<pc, ntracks, threads, nmodels, weight_combinations, futures, fstate,
          fresult, completed, ci, all_sdr_values, avg_sdr_per_weight, si, best_sdr,
          best_weights, output, crash, pt, gs>>

mainVars == <<pc, ntracks, threads, nmodels, weight_combinations, futures, fstate,
              fresult, completed, ci, all_sdr_values, avg_sdr_per_weight, si, best_sdr,
              best_weights, output, crash>>

----------------------------------------------------------------------------
(* Bounds of the model *)

MaxTracks == 2

MaxThreads == 2

MaxModels == 2

MaxLen == 2

(* Program constants *)

WeightStep == 1

WeightTotal == 10

DeltaInv == 10000000

Cutoff == 10000

(* One sample is an integer number of 1/SampleUnit (full scale = 1.0) *)
SampleUnit == 2

----------------------------------------------------------------------------
(* Small helpers *)

Min(a, b) == IF a <= b THEN a ELSE b

Abs(x) == IF x < 0 THEN -x ELSE x

CeilDiv(a, b) == IF a <= 0 THEN 0 ELSE (a + b - 1) \div b

Range(s) == {s[i] : i \in 1..Len(s)}

SetMin(S) == CHOOSE x \in S : \A y \in S : x <= y

RECURSIVE SumSeq(_)
SumSeq(s) == IF s = <<>> THEN 0 ELSE s[1] + SumSeq(Tail(s))

RECURSIVE Concat(_)
Concat(ss) == IF ss = <<>> THEN <<>> ELSE ss[1] \o Concat(Tail(ss))

----------------------------------------------------------------------------
(* np.arange(start, stop, step): ceil((stop - start) / step) values *)
Arange(start, stop, step) ==
    [i \in 1..CeilDiv(stop - start, step) |-> start + (i - 1) * step]

(* line 136 with the stop of the range left at 10: the pair (10, 0) is lost *)
WeightCombinationsExclusive ==
    LET firsts == Arange(0, WeightTotal, WeightStep)
    IN  [i \in 1..Len(firsts) |-> <<firsts[i], WeightTotal - firsts[i]>>]

(* main, line 136 *)
WeightCombinations ==
    LET firsts == Arange(0, WeightTotal + WeightStep, WeightStep)
    IN  [i \in 1..Len(firsts) |-> <<firsts[i], WeightTotal - firsts[i]>>]

----------------------------------------------------------------------------
(* Exceptions *)

NoExc == [kind |-> "none", rates |-> <<>>, file |-> 0]

ReadError(k) == [kind |-> "ReadError", rates |-> <<>>, file |-> k]

IndexError == [kind |-> "IndexError", rates |-> <<>>, file |-> 0]

CutoffError == [kind |-> "CutoffError", rates |-> <<>>, file |-> 0]

(* sorted(set(srs)) *)
RECURSIVE SortedSet(_)
SortedSet(S) ==
    IF S = {} THEN <<>>
    ELSE LET m == SetMin(S) IN <<m>> \o SortedSet(S \ {m})

(* line 113 with the rates listed as read: neither sorted nor distinct *)
SampleRateErrorAsRead(srs) ==
    [kind |-> "SampleRateError", rates |-> srs, file |-> 0]

(* the ValueError of line 113; its message lists sorted(set(srs)) *)
SampleRateError(srs) ==
    [kind |-> "SampleRateError", rates |-> SortedSet(Range(srs)), file |-> 0]

----------------------------------------------------------------------------
(* What the files of a track hold *)

Rates == {16000, 44100, 48000}

(* the rates the files of the pool's tracks are drawn from *)
PoolRates == {16000, 44100}

DefaultProfile == [shape |-> "abs", peak |-> 0, slope |-> 0]

Shapes == {"abs", "sq"}

Peaks == {3, 5}

Profiles ==
    {DefaultProfile} \cup [shape : Shapes, peak : Peaks, slope : {1}]

(* The SDR, in dB, of the blend of weight first_val for a track of profile p *)
SdrValue(p, first_val) ==
    LET d == Abs(first_val - p.peak)
    IN  12 - p.slope * (IF p.shape = "sq" THEN d * d ELSE d)

NFiles(nm) == 2 + nm

(* the inputs of one process_track call: the rate sf.read reports for each *)
(* file in the order read, the file whose read fails (0: none), the profile *)
TrackInputs(rs, nm) ==
    [rates : [1..NFiles(nm) -> rs], failat : 0..NFiles(nm), profile : Profiles]

(* The inputs the tracks of the pool are drawn from: process_track reads a   *)
(* profile only when every file is read and all rates are equal, and reads   *)
(* no rate again once a read has failed, so the parts it does not read are   *)
(* held at one value                                                         *)
PoolInputs(nm) ==
    {[rates |-> [k \in 1..NFiles(nm) |-> r], failat |-> 0, profile |-> p] :
        r \in PoolRates, p \in Profiles}
    \cup {[rates |-> rv, failat |-> 0, profile |-> DefaultProfile] :
            rv \in {v \in [1..NFiles(nm) -> PoolRates] : Cardinality(Range(v)) > 1}}
    \cup {[rates |-> [k \in 1..NFiles(nm) |-> SetMin(PoolRates)], failat |-> fa,
           profile |-> DefaultProfile] : fa \in 1..NFiles(nm)}

----------------------------------------------------------------------------
(* process_track, lines 87-124, as a frame that TrackStep advances by one   *)
(* statement: a file read, the sample-rate check, one turn of the blend loop *)

TrackFrame(nm, wc, inp) ==
    [pc |-> "read", k |-> 0, srs |-> <<>>, i |-> 0, track_sdr_values |-> <<>>,
     exc |-> NoExc, nm |-> nm, wc |-> wc, inp |-> inp]

Raise(f, e) == [f EXCEPT !.pc = "raised", !.exc = e]

(* lines 100-101 and 107-109: sf.read of the next file, its rate kept in srs *)
ReadStep(f) ==
    IF f.inp.failat = f.k + 1
    THEN Raise(f, ReadError(f.k + 1))
    ELSE [f EXCEPT !.k = f.k + 1,
                   !.srs = Append(f.srs, f.inp.rates[f.k + 1]),
                   !.pc = IF f.k + 1 = NFiles(f.nm) THEN "check" ELSE "read"]

(* lines 112-113 *)
CheckStep(f) ==
    IF Cardinality(Range(f.srs)) > 1
    THEN Raise(f, SampleRateError(f.srs))
    ELSE [f EXCEPT !.pc = "blend"]

(* lines 115-124: one turn of the loop over weight_combinations, or the return. *)
(* model_signals[1] needs two models; signal.butter needs cutoff < sr1 / 2      *)
BlendStep(f) ==
    IF f.i = Len(f.wc) THEN [f EXCEPT !.pc = "returned"]
    ELSE IF f.nm < 2 THEN Raise(f, IndexError)
    ELSE IF 2 * Cutoff >= f.srs[1] THEN Raise(f, CutoffError)
    ELSE LET w == f.wc[f.i + 1]
         IN  [f EXCEPT !.i = f.i + 1,
                       !.track_sdr_values =
                           Append(f.track_sdr_values,
                                  <<w[1], w[2], SdrValue(f.inp.profile, w[1])>>)]

TrackStep(f) ==
    CASE f.pc = "read" -> ReadStep(f)
      [] f.pc = "check" -> CheckStep(f)
      [] f.pc = "blend" -> BlendStep(f)
      [] OTHER -> f

TrackEnded(f) == f.pc \in {"returned", "raised"}

RECURSIVE RunTrack(_)
RunTrack(f) == IF TrackEnded(f) THEN f ELSE RunTrack(TrackStep(f))

(* What the future of a process_track call holds when the call has ended *)
Outcome(f) == [exc |-> f.exc, value |-> IF f.pc = "returned" THEN f.track_sdr_values ELSE <<>>]

ProcessTrack(nm, wc, inp) == Outcome(RunTrack(TrackFrame(nm, wc, inp)))

NoOutcome == [exc |-> NoExc, value |-> <<>>]

IdleTrack == [pc |-> "idle"]

IdleSdr == [pc |-> "idle"]

----------------------------------------------------------------------------
(* SpecTrack: one call of process_track *)

MainIdle ==
    /\ pc = "idle" /\ ntracks = 0 /\ threads = 1 /\ nmodels = 1
    /\ weight_combinations = <<>> /\ futures = <<>>
    /\ fstate = <<>> /\ fresult = <<>> /\ completed = <<>> /\ ci = 0
    /\ all_sdr_values = <<>> /\ avg_sdr_per_weight = <<>> /\ si = 0
    /\ best_sdr = <<0, 1>> /\ best_weights = <<0, 0>>
    /\ output = [printed |-> FALSE] /\ crash = NoExc

InitTrack ==
    /\ MainIdle
    /\ gs = IdleSdr
    /\ \E nm \in 1..MaxModels : \E inp \in TrackInputs(Rates, nm) :
          pt = TrackFrame(nm, WeightCombinations, inp)

TrackRead ==
    /\ pt.pc = "read"
    /\ pt' = ReadStep(pt)
    /\ UNCHANGED <<mainVars, gs>>

TrackCheck ==
    /\ pt.pc = "check"
    /\ pt' = CheckStep(pt)
    /\ UNCHANGED <<mainVars, gs>>

TrackBlend ==
    /\ pt.pc = "blend"
    /\ pt' = BlendStep(pt)
    /\ UNCHANGED <<mainVars, gs>>

NextTrack == TrackRead \/ TrackCheck \/ TrackBlend

SpecTrack == InitTrack /\ [][NextTrack]_vars

----------------------------------------------------------------------------
(* Signals: a signal is a sequence of channels of one length, a channel a    *)
(* sequence of samples (the transposed array process_track hands to get_sdr) *)

Samples == {-2, 0, 1}

Channels == {1, 2}

Signals(c) == UNION {[1..c -> [1..n -> Samples]] : n \in 0..MaxLen}

(* shape[1] of a signal *)
NumSamples(x) == Len(x[1])

(* x[:, :n]: a slice stops at the end of the axis *)
Slice(x, n) == [c \in 1..Len(x) |-> SubSeq(x[c], 1, Min(n, Len(x[c])))]

(* numpy broadcasts an axis of length 1 against any length *)
Broadcastable(n1, n2) == n1 = n2 \/ n1 = 1 \/ n2 = 1

BroadcastLen(n1, n2) == IF n1 = 1 THEN n2 ELSE n1

At(ch, j) == IF Len(ch) = 1 THEN ch[1] ELSE ch[j]

(* np.sum(np.square(x), axis=(1, 2)) for one batch element, in 1/SampleUnit^2 *)
Energy(x) == SumSeq([c \in 1..Len(x) |-> SumSeq([j \in 1..Len(x[c]) |-> x[c][j] * x[c][j]])])

(* references - estimates for one batch element *)
Difference(r, e) ==
    [c \in 1..Len(r) |->
        [j \in 1..BroadcastLen(Len(r[c]), Len(e[c])) |-> At(r[c], j) - At(e[c], j)]]

(* sdr without line 43: nothing added to the denominator *)
sdrNoDeltaInDen(references, estimates) ==
    [num |-> Energy(references) * DeltaInv + SampleUnit * SampleUnit,
     den |-> Energy(Difference(references, estimates)) * DeltaInv]

(* sdr, lines 39-44, for a batch of one: the ratio num / den whose logarithm   *)
(* is returned, both terms multiplied by SampleUnit^2 / delta to stay integers *)
sdr(references, estimates) ==
    [num |-> Energy(references) * DeltaInv + SampleUnit * SampleUnit,
     den |-> Energy(Difference(references, estimates)) * DeltaInv + SampleUnit * SampleUnit]

(* line 58 with the length of the reference alone *)
MinLengthOfOriginal(original_signal, model_signal) ==
    NumSamples(original_signal)

(* line 58 *)
MinLength(original_signal, model_signal) ==
    Min(NumSamples(original_signal), NumSamples(model_signal))

(* get_sdr, lines 58-62: the frame after the call *)
get_sdr(f) ==
    LET min_length == MinLength(f.original_signal, f.model_signal)
        original_signal_trimmed == Slice(f.original_signal, min_length)
        model_signal_trimmed == Slice(f.model_signal, min_length)
    IN  IF Broadcastable(NumSamples(original_signal_trimmed),
                         NumSamples(model_signal_trimmed))
        THEN [f EXCEPT !.pc = "returned",
                       !.min_length = min_length,
                       !.original_signal_trimmed = original_signal_trimmed,
                       !.model_signal_trimmed = model_signal_trimmed,
                       !.sdr_value = sdr(original_signal_trimmed, model_signal_trimmed)]
        ELSE [f EXCEPT !.pc = "raised",
                       !.min_length = min_length,
                       !.original_signal_trimmed = original_signal_trimmed,
                       !.model_signal_trimmed = model_signal_trimmed]

SdrFrame(original_signal, model_signal) ==
    [pc |-> "call", original_signal |-> original_signal, model_signal |-> model_signal,
     min_length |-> 0, original_signal_trimmed |-> <<>>, model_signal_trimmed |-> <<>>,
     sdr_value |-> [num |-> 0, den |-> 0]]

InitSdr ==
    /\ MainIdle
    /\ pt = IdleTrack
    /\ \E c \in Channels : \E r \in Signals(c), e \in Signals(c) : gs = SdrFrame(r, e)

GetSdr ==
    /\ gs.pc = "call"
    /\ gs' = get_sdr(gs)
    /\ UNCHANGED <<mainVars, pt>>

NextSdr == GetSdr

SpecSdr == InitSdr /\ [][NextSdr]_vars

----------------------------------------------------------------------------
(* main, lines 133-166 *)

Tracks == 1..ntracks

(* float('-inf'), as a mean with no observation *)
NegInf == <<-1, 0>>

IsNegInf(a) == a[2] = 0

(* line 162 with >= for >: the last of the tied pairs wins *)
GtOrEqual(a, b) ==
    IF IsNegInf(a) THEN FALSE
    ELSE IF IsNegInf(b) THEN TRUE
    ELSE a[1] * b[2] >= b[1] * a[2]

(* a > b on means and -inf *)
Gt(a, b) ==
    IF IsNegInf(a) THEN FALSE
    ELSE IF IsNegInf(b) THEN TRUE
    ELSE a[1] * b[2] > b[1] * a[2]

(* line 161 with the highest single observation for the mean *)
HighestSingle(sdr_values) ==
    <<CHOOSE v \in Range(sdr_values) : \A u \in Range(sdr_values) : u <= v, 1>>

(* line 161: sum(sdr_values) / len(sdr_values) *)
Mean(sdr_values) == <<SumSeq(sdr_values), Len(sdr_values)>>

(* round(x, 2), in hundredths: the nearest, a tie to the even one; -inf stays *)
Round2(a) ==
    IF IsNegInf(a) THEN NegInf
    ELSE LET n == 100 * a[1]
             fl == n \div a[2]
             rem == n - fl * a[2]
         IN  <<(IF 2 * rem < a[2] THEN fl
                ELSE IF 2 * rem > a[2] THEN fl + 1
                ELSE IF fl % 2 = 0 THEN fl ELSE fl + 1), 100>>

(* lines 155-157: one observation into the dict, a new key going last *)
Accumulate(items, obs) ==
    LET key == <<obs[1], obs[2]>>
    IN  IF \E j \in 1..Len(items) : items[j].key = key
        THEN [j \in 1..Len(items) |->
                 IF items[j].key = key
                 THEN [items[j] EXCEPT !.vals = Append(items[j].vals, obs[3])]
                 ELSE items[j]]
        ELSE Append(items, [key |-> key, vals |-> <<obs[3]>>])

(* lines 154-157 *)
RECURSIVE AccumulateAll(_, _)
AccumulateAll(items, observations) ==
    IF observations = <<>> THEN items
    ELSE AccumulateAll(Accumulate(items, observations[1]), Tail(observations))

Running == {t \in Tracks : fstate[t] = "running"}

Init ==
    /\ pc = "start"
    /\ ntracks \in 0..MaxTracks
    /\ threads \in 1..MaxThreads
    /\ nmodels \in 1..MaxModels
    /\ weight_combinations = <<>>
    /\ futures = <<>>
    /\ fstate = [t \in Tracks |-> "none"]
    /\ fresult = [t \in Tracks |-> NoOutcome]
    /\ completed = <<>>
    /\ ci = 0
    /\ all_sdr_values = <<>>
    /\ avg_sdr_per_weight = <<>>
    /\ si = 0
    /\ best_sdr = NegInf
    /\ best_weights = <<0, 0>>
    /\ output = [printed |-> FALSE]
    /\ crash = NoExc
    /\ pt = IdleTrack
    /\ gs = IdleSdr

(* lines 135-140 *)
Generate ==
    /\ pc = "start"
    /\ weight_combinations' = WeightCombinations
    /\ all_sdr_values' = <<>>
    /\ futures' = <<>>
    /\ pc' = "submit"
    /\ UNCHANGED <<completed, ntracks, threads, nmodels, fstate, fresult, ci,
                   avg_sdr_per_weight, si, best_sdr, best_weights, output, crash, pt, gs>>

(* lines 141-143: the next directory of os.walk goes to the pool *)
Submit ==
    /\ pc = "submit"
    /\ Len(futures) < ntracks
    /\ LET t == Len(futures) + 1
       IN  /\ futures' = Append(futures, t)
           /\ fstate' = [fstate EXCEPT ![t] = "pending"]
    /\ UNCHANGED <<completed, pc, ntracks, threads, nmodels, weight_combinations, fresult, ci,
                   all_sdr_values, avg_sdr_per_weight, si, best_sdr, best_weights,
                   output, crash, pt, gs>>

(* line 141: os.walk is exhausted *)
SubmitEnd ==
    /\ pc = "submit"
    /\ Len(futures) = ntracks
    /\ pc' = "collect"
    /\ UNCHANGED <<completed, ntracks, threads, nmodels, weight_combinations, futures, fstate,
                   fresult, ci, all_sdr_values, avg_sdr_per_weight, si, best_sdr,
                   best_weights, output, crash, pt, gs>>

(* a pool that starts a thread per work item, whatever max_workers is *)
WorkerTakeUnbounded(t) ==
    /\ fstate[t] = "pending"
    /\ \A u \in Tracks : u < t => fstate[u] # "pending"
    /\ fstate' = [fstate EXCEPT ![t] = "running"]
    /\ UNCHANGED <<completed, pc, ntracks, threads, nmodels, weight_combinations, futures,
                   fresult, ci, all_sdr_values, avg_sdr_per_weight, si, best_sdr,
                   best_weights, output, crash, pt, gs>>

(* ThreadPoolExecutor(max_workers=args.threads): a free worker takes the oldest *)
(* pending work item                                                            *)
WorkerTake(t) ==
    /\ fstate[t] = "pending"
    /\ \A u \in Tracks : u < t => fstate[u] # "pending"
    /\ Cardinality(Running) < threads
    /\ fstate' = [fstate EXCEPT ![t] = "running"]
    /\ UNCHANGED <<completed, pc, ntracks, threads, nmodels, weight_combinations, futures,
                   fresult, ci, all_sdr_values, avg_sdr_per_weight, si, best_sdr,
                   best_weights, output, crash, pt, gs>>

(* the worker runs process_track(root, track, weight_combinations, args.models) *)
(* and sets the future's result or exception                                    *)
WorkerRun(t) ==
    /\ fstate[t] = "running"
    /\ \E inp \in PoolInputs(nmodels) :
          fresult' = [fresult EXCEPT ![t] = ProcessTrack(nmodels, weight_combinations, inp)]
    /\ fstate' = [fstate EXCEPT ![t] = "finished"]
    /\ completed' = Append(completed, t)
    /\ UNCHANGED <<pc, ntracks, threads, nmodels, weight_combinations, futures, ci,
                   all_sdr_values, avg_sdr_per_weight, si, best_sdr, best_weights,
                   output, crash, pt, gs>>

(* lines 145-146 over as_completed(futures): the results in completion order *)
CollectAsCompleted ==
    /\ pc = "collect"
    /\ ci < Len(futures)
    /\ ci < Len(completed)
    /\ LET t == completed[ci + 1]
       IN  IF fresult[t].exc = NoExc
           THEN /\ all_sdr_values' = all_sdr_values \o fresult[t].value
                /\ ci' = ci + 1
                /\ UNCHANGED <<pc, crash>>
           ELSE /\ crash' = fresult[t].exc
                /\ pc' = "shutdown"
                /\ UNCHANGED <<all_sdr_values, ci>>
    /\ UNCHANGED <<completed, ntracks, threads, nmodels, weight_combinations, futures,
                   fstate, fresult, avg_sdr_per_weight, si, best_sdr, best_weights,
                   output, pt, gs>>

(* lines 145-146 with the exception of a failed future caught and the track skipped *)
CollectSkipFailed ==
    /\ pc = "collect"
    /\ ci < Len(futures)
    /\ LET t == futures[ci + 1]
       IN  /\ fstate[t] = "finished"
           /\ all_sdr_values' = all_sdr_values \o fresult[t].value
           /\ ci' = ci + 1
    /\ UNCHANGED <<completed, pc, crash, ntracks, threads, nmodels, weight_combinations,
                   futures, fstate, fresult, avg_sdr_per_weight, si, best_sdr,
                   best_weights, output, pt, gs>>

(* lines 145-146: future.result() of the next future in submission order; it *)
(* returns once that future is finished, or raises the future's exception    *)
Collect ==
    /\ pc = "collect"
    /\ ci < Len(futures)
    /\ LET t == futures[ci + 1]
       IN  /\ fstate[t] = "finished"
           /\ IF fresult[t].exc = NoExc
              THEN /\ all_sdr_values' = all_sdr_values \o fresult[t].value
                   /\ ci' = ci + 1
                   /\ UNCHANGED <<pc, crash>>
              ELSE /\ crash' = fresult[t].exc
                   /\ pc' = "shutdown"
                   /\ UNCHANGED <<all_sdr_values, ci>>
    /\ UNCHANGED <<completed, ntracks, threads, nmodels, weight_combinations, futures, fstate,
                   fresult, avg_sdr_per_weight, si, best_sdr, best_weights, output,
                   pt, gs>>

(* line 139, the exit of the with block on an exception: shutdown(wait=True) *)
(* lets every submitted track end, then the exception ends main              *)
Shutdown ==
    /\ pc = "shutdown"
    /\ \A t \in Range(futures) : fstate[t] = "finished"
    /\ pc' = "crashed"
    /\ UNCHANGED <<completed, ntracks, threads, nmodels, weight_combinations, futures, fstate,
                   fresult, ci, all_sdr_values, avg_sdr_per_weight, si, best_sdr,
                   best_weights, output, crash, pt, gs>>

(* lines 148-157, after the last future *)
Aggregate ==
    /\ pc = "collect"
    /\ ci = Len(futures)
    /\ best_sdr' = NegInf
    /\ best_weights' = <<0, 0>>
    /\ avg_sdr_per_weight' = AccumulateAll(<<>>, all_sdr_values)
    /\ si' = 0
    /\ pc' = "select"
    /\ UNCHANGED <<completed, ntracks, threads, nmodels, weight_combinations, futures, fstate,
                   fresult, ci, all_sdr_values, output, crash, pt, gs>>

(* lines 160-164: the next item of the dict *)
Select ==
    /\ pc = "select"
    /\ si < Len(avg_sdr_per_weight)
    /\ LET weights == avg_sdr_per_weight[si + 1].key
           avg_sdr == Mean(avg_sdr_per_weight[si + 1].vals)
       IN  IF Gt(avg_sdr, best_sdr)
           THEN best_sdr' = avg_sdr /\ best_weights' = weights
           ELSE UNCHANGED <<best_sdr, best_weights>>
    /\ si' = si + 1
    /\ UNCHANGED <<completed, pc, ntracks, threads, nmodels, weight_combinations, futures, fstate,
                   fresult, ci, all_sdr_values, avg_sdr_per_weight, output, crash,
                   pt, gs>>

(* line 166: args.models[1] needs two models *)
PrintBest ==
    /\ pc = "select"
    /\ si = Len(avg_sdr_per_weight)
    /\ IF nmodels < 2
       THEN crash' = IndexError /\ pc' = "crashed" /\ UNCHANGED output
       ELSE /\ output' = [printed |-> TRUE, best_sdr |-> Round2(best_sdr),
                          best_weights |-> best_weights]
            /\ pc' = "done"
            /\ UNCHANGED crash
    /\ UNCHANGED <<completed, ntracks, threads, nmodels, weight_combinations, futures, fstate,
                   fresult, ci, all_sdr_values, avg_sdr_per_weight, si, best_sdr,
                   best_weights, pt, gs>>

Next ==
    \/ Generate
    \/ Submit
    \/ SubmitEnd
    \/ \E t \in Tracks : WorkerTake(t)
    \/ \E t \in Tracks : WorkerRun(t)
    \/ Collect
    \/ Shutdown
    \/ Aggregate
    \/ Select
    \/ PrintBest

Spec == Init /\ [][Next]_vars

----------------------------------------------------------------------------
(* The track tables, read from what the futures hold *)

Pairs == Range(weight_combinations)

PairOf(obs) == <<obs[1], obs[2]>>

(* the observations of track t for pair p *)
ObsAt(t, p) == {j \in 1..Len(fresult[t].value) : PairOf(fresult[t].value[j]) = p}

Obs(t, p) == fresult[t].value[CHOOSE j \in ObsAt(t, p) : TRUE][3]

(* the mean of pair p over all tracks, as <<sum, count>> *)
TrackMean(p) == <<SumSeq([t \in 1..ntracks |-> Obs(t, p)]), ntracks>>

RatLeq(a, b) == a[1] * b[2] <= b[1] * a[2]

RatEq(a, b) == a[1] * b[2] = b[1] * a[2]

AllSucceeded == \A t \in Tracks : fstate[t] = "finished" /\ fresult[t].exc = NoExc

Failed(t) == fstate[t] = "finished" /\ fresult[t].exc # NoExc

----------------------------------------------------------------------------
(* C1: when main ends having evaluated at least one track, all of them with  *)
(* success, every track holds exactly one observation for every generated    *)
(* pair, every pair's list holds one value per track, the reported pair is a *)
(* generated pair whose mean over all tracks no other pair's mean exceeds,   *)
(* best_sdr is that mean and the printed value is that mean rounded to the   *)
(* nearest hundredth.                                                        *)
C1_BestMeanReported ==
    (pc = "done" /\ ntracks >= 1 /\ AllSucceeded) =>
        /\ \A t \in Tracks : \A p \in Pairs : Cardinality(ObsAt(t, p)) = 1
        /\ {avg_sdr_per_weight[j].key : j \in 1..Len(avg_sdr_per_weight)} = Pairs
        /\ \A j \in 1..Len(avg_sdr_per_weight) : Len(avg_sdr_per_weight[j].vals) = ntracks
        /\ output.printed
        /\ output.best_weights \in Pairs
        /\ \A p \in Pairs : RatLeq(TrackMean(p), TrackMean(output.best_weights))
        /\ best_sdr[2] > 0
        /\ RatEq(best_sdr, TrackMean(output.best_weights))
        /\ LET m == TrackMean(output.best_weights)
               d == 100 * m[1] - output.best_sdr[1] * m[2]
           IN  /\ output.best_sdr[2] = 100
               /\ 2 * Abs(d) <= m[2]

(* C1 witness: two tracks, and the reported pair is the best pair of neither *)
C1_Witness ==
    /\ pc = "done" /\ ntracks = 2 /\ AllSucceeded
    /\ \A t \in Tracks : \E p \in Pairs : Obs(t, p) > Obs(t, output.best_weights)

(* the first generated pair whose mean over the tracks no pair's mean exceeds *)
FirstBest ==
    LET best == {j \in 1..Len(weight_combinations) :
                    \A p \in Pairs : RatLeq(TrackMean(p), TrackMean(weight_combinations[j]))}
    IN  weight_combinations[SetMin(best)]

(* C2: whatever the order the evaluations ended in, the collected list is    *)
(* the tracks' results in submission order, the dict holds the pairs in      *)
(* generation order, each with its values in submission order (so each sum   *)
(* adds the same numbers in the same order), and the reported pair is the    *)
(* one the tables alone determine.                                           *)
C2_CompletionOrderIrrelevant ==
    (pc \in {"select", "done"}) =>
        /\ all_sdr_values = Concat([i \in 1..Len(futures) |-> fresult[futures[i]].value])
        /\ (ntracks >= 1 => Len(avg_sdr_per_weight) = Len(weight_combinations))
        /\ \A j \in 1..Len(avg_sdr_per_weight) :
              /\ avg_sdr_per_weight[j].key = weight_combinations[j]
              /\ avg_sdr_per_weight[j].vals =
                    [i \in 1..ntracks |-> Obs(futures[i], weight_combinations[j])]
        /\ (pc = "done" /\ ntracks >= 1 => output.best_weights = FirstBest)

(* C2 witness: the second track submitted ended first, with another table *)
C2_Witness ==
    /\ pc = "done" /\ ntracks = 2
    /\ completed = <<2, 1>>
    /\ fresult[1].value # fresult[2].value

(* C3: once generated, the list holds the 11 pairs (w, 10 - w), w = 0..10,   *)
(* in that order: each sums to 10, (0, 10) and (10, 0) are there, none is    *)
(* repeated; and no step changes the list afterwards.                        *)
C3_ElevenPairs ==
    /\ [](pc # "start" =>
            /\ Len(weight_combinations) = 11
            /\ \A i \in 1..Len(weight_combinations) :
                  /\ weight_combinations[i][1] = i - 1
                  /\ weight_combinations[i][1] + weight_combinations[i][2] = 10
            /\ <<0, 10>> \in Pairs /\ <<10, 0>> \in Pairs
            /\ Cardinality(Pairs) = 11)
    /\ [][pc # "start" => weight_combinations' = weight_combinations]_vars

(* C3 witness: the run has ended and the last pair generated is (10, 0) *)
C3_Witness ==
    /\ pc = "done"
    /\ Len(weight_combinations) = 11
    /\ weight_combinations[11] = <<10, 0>>

(* C5: once the evaluation of a track has failed, main never reaches the     *)
(* aggregation and never prints; when main has ended after a failure, it has *)
(* ended with the exception of the first failed track in submission order.   *)
C5_FailureAbortsRun ==
    (\E t \in Tracks : Failed(t)) =>
        /\ ~output.printed
        /\ pc \notin {"select", "done"}
        /\ avg_sdr_per_weight = <<>>
        /\ (pc = "crashed" =>
              crash = fresult[SetMin({t \in Tracks : Failed(t)})].exc)

(* C5 witness: main has ended on the second track's exception after it had *)
(* collected the observations of the first                                  *)
C5_Witness ==
    /\ pc = "crashed" /\ ntracks = 2
    /\ fresult[1].exc = NoExc /\ Failed(2)
    /\ completed = <<2, 1>>
    /\ Len(all_sdr_values) = 11

(* C7: among the pairs whose mean is the highest, the reported one has the   *)
(* smallest first weight, which is the first of them in the dict; and the    *)
(* selection loop replaces the best pair only by one of strictly higher mean *)
C7_FirstSeenWinsTies ==
    /\ [](pc = "done" /\ ntracks >= 1 =>
            /\ \A p \in Pairs :
                  RatEq(TrackMean(p), TrackMean(output.best_weights))
                      => output.best_weights[1] <= p[1]
            /\ \A j \in 1..Len(avg_sdr_per_weight) :
                  RatEq(TrackMean(avg_sdr_per_weight[j].key), TrackMean(output.best_weights))
                      => \E i \in 1..j : avg_sdr_per_weight[i].key = output.best_weights)
    /\ [][pc = "select" /\ pc' = "select" /\ best_weights' # best_weights =>
            /\ best_sdr'[2] > 0
            /\ (best_sdr[2] > 0 =>
                   best_sdr'[1] * best_sdr[2] > best_sdr[1] * best_sdr'[2])]_vars

(* C7 witness: several pairs share the highest mean and the reported one is *)
(* neither the first pair of the dict nor the last of the tied ones         *)
C7_Witness ==
    /\ pc = "done" /\ ntracks = 2
    /\ output.best_weights = <<3, 7>>
    /\ RatEq(TrackMean(<<5, 5>>), TrackMean(<<3, 7>>))
    /\ completed = <<2, 1>>

(* C9: at most `threads` evaluations run at once and every discovered track  *)
(* is submitted once; the end of an evaluation writes that track's future    *)
(* and nothing else; all_sdr_values changes only when main appends the       *)
(* result of the finished future it waits for; the weight pairs and the      *)
(* models are not written once the pool runs.                                *)
C9_NoSharedMutableState ==
    /\ [](/\ Cardinality(Running) <= threads
          /\ \A i, j \in 1..Len(futures) : futures[i] = futures[j] => i = j
          /\ Range(futures) \subseteq Tracks
          /\ \A t \in Tracks : fstate[t] # "none" <=> t \in Range(futures)
          /\ (pc \notin {"start", "submit"} => Range(futures) = Tracks))
    /\ [][/\ (fresult' # fresult =>
                \E t \in Tracks :
                    /\ fstate[t] = "running" /\ fstate'[t] = "finished"
                    /\ \A u \in Tracks \ {t} :
                          fresult'[u] = fresult[u] /\ fstate'[u] = fstate[u]
                    /\ UNCHANGED <<pc, weight_combinations, nmodels, futures, ci,
                                   all_sdr_values, avg_sdr_per_weight, best_sdr,
                                   best_weights, output>>)
          /\ (all_sdr_values' # all_sdr_values =>
                /\ pc = "collect" /\ ci < Len(futures)
                /\ fstate[futures[ci + 1]] = "finished"
                /\ all_sdr_values' = all_sdr_values \o fresult[futures[ci + 1]].value
                /\ UNCHANGED <<fresult, fstate>>)
          /\ (pc # "start" => UNCHANGED <<weight_combinations, nmodels, threads>>)]_vars

(* C9 witness: two evaluations run at once while main waits for the first *)
C9_Witness ==
    /\ pc = "collect" /\ ci = 0
    /\ Cardinality(Running) = 2

(* C10: what print writes is a generated pair and a finite mean *)
C10_ReportedPairGenerated ==
    output.printed =>
        /\ output.best_weights \in Pairs
        /\ ~IsNegInf(output.best_sdr)

----------------------------------------------------------------------------
PrefixEnergy(x, y, n) ==
    SumSeq([c \in 1..Len(x) |->
               SumSeq([j \in 1..n |-> (x[c][j] - y[c][j]) * (x[c][j] - y[c][j])])])

ZeroSignal(x) == [c \in 1..Len(x) |-> [j \in 1..Len(x[c]) |-> 0]]

(* C6: get_sdr returns for every pair of lengths; what it compares is, for   *)
(* every channel, the first min(Lr, Lc) samples of the reference and of the  *)
(* candidate, the SDR terms are those of these samples alone, and the two    *)
(* signals passed in are the same after the call.                            *)
C6_TrimToShorter ==
    /\ [](gs.pc # "call" =>
            LET Lr == Len(gs.original_signal[1])
                Lc == Len(gs.model_signal[1])
                m == IF Lr <= Lc THEN Lr ELSE Lc
                unit == SampleUnit * SampleUnit
            IN  /\ gs.pc = "returned"
                /\ gs.min_length = m
                /\ Len(gs.original_signal_trimmed) = Len(gs.original_signal)
                /\ Len(gs.model_signal_trimmed) = Len(gs.model_signal)
                /\ \A c \in 1..Len(gs.original_signal) :
                      /\ Len(gs.original_signal_trimmed[c]) = m
                      /\ Len(gs.model_signal_trimmed[c]) = m
                      /\ \A j \in 1..m :
                            /\ gs.original_signal_trimmed[c][j] = gs.original_signal[c][j]
                            /\ gs.model_signal_trimmed[c][j] = gs.model_signal[c][j]
                /\ gs.sdr_value.num =
                      PrefixEnergy(gs.original_signal, ZeroSignal(gs.original_signal), m)
                          * DeltaInv + unit
                /\ gs.sdr_value.den =
                      PrefixEnergy(gs.original_signal, gs.model_signal, m) * DeltaInv + unit)
    /\ [][/\ gs'.original_signal = gs.original_signal
          /\ gs'.model_signal = gs.model_signal]_vars

(* C6 witness: a reference of two channels longer than the candidate, whose *)
(* last sample is left out                                                  *)
C6_Witness ==
    /\ gs.pc = "returned"
    /\ Len(gs.original_signal) = 2
    /\ Len(gs.original_signal[1]) = 2 /\ Len(gs.model_signal[1]) = 1
    /\ gs.original_signal[1][2] # 0
    /\ gs.min_length = 1

SdrOfEqualSignals ==
    gs.pc = "returned" /\ gs.original_signal_trimmed = gs.model_signal_trimmed

(* C8 as stated: for equal signals the denominator is positive and the ratio *)
(* num / den is at most 1/eps                                                *)
C8_RatioBoundedByInvEps ==
    SdrOfEqualSignals =>
        /\ gs.sdr_value.den > 0
        /\ gs.sdr_value.num <= DeltaInv * gs.sdr_value.den

(* C8 amended: for equal signals the denominator is eps exactly, so positive, *)
(* the ratio is 1 + (sum ref^2) / eps, and it is at most 1/eps exactly when   *)
(* sum ref^2 + eps <= 1                                                       *)
C8_RatioOfEqualSignals ==
    SdrOfEqualSignals =>
        LET unit == SampleUnit * SampleUnit
            energy == PrefixEnergy(gs.original_signal_trimmed,
                                   ZeroSignal(gs.original_signal_trimmed),
                                   Len(gs.original_signal_trimmed[1]))
        IN  /\ gs.sdr_value.den = unit
            /\ gs.sdr_value.den > 0
            /\ gs.sdr_value.num = energy * DeltaInv + gs.sdr_value.den
            /\ (gs.sdr_value.num <= DeltaInv * gs.sdr_value.den
                   <=> energy * DeltaInv + unit <= unit * DeltaInv)

(* C8 witness: equal signals whose ratio is above 1/eps *)
C8_Witness ==
    /\ SdrOfEqualSignals
    /\ gs.sdr_value.den > 0
    /\ gs.sdr_value.num > DeltaInv * gs.sdr_value.den

====
